---- MODULE Spec2Model ----
(***************************************************************************)
(* Ordering engine of the Kanban task board: the Task model's statics      *)
(* (getNextOrder, reorderTasks, moveTaskToColumn) and the /api/tasks       *)
(* routes that call them, run against a task collection that carries the   *)
(* unique compound index { columnId, order }.                              *)
(*                                                                         *)
(* The store is the collection: a function from the identifiers of the     *)
(* stored tasks to their columnId and order.  Titles, descriptions and     *)
(* timestamps take no part in ordering and are left out; every request is  *)
(* taken to carry a well-formed identifier and a valid title.              *)
(***************************************************************************)
EXTENDS Integers, Sequences, FiniteSets, TLC

\* Bounds of the model.
MaxTasks == 3        \* tasks ever created
MaxOrder == 3        \* largest order a request supplies
MaxUpdates == 2      \* longest list handed to /reorder

Ids == 1..MaxTasks
OrderCap == MaxOrder              \* largest order kept in the store
validColumns == {"todo", "in-progress", "completed"}
OrderInputs == 0..MaxOrder        \* 0 stands for a falsy / absent order
\* The (columnId, order) pairs a request carries: every valid column with
\* every order, and one column outside the enumeration.
Targets ==
  [columnId : validColumns, order : OrderInputs]
    \cup {[columnId |-> "archived", order |-> 0]}

\* The three indexes of the schema give the query planner two ways to walk the
\* documents a multi-update matches: by ascending order (the order index and
\* the compound index) or by record id, i.e. insertion order (the columnId
\* index or a collection scan).
Plans == {"byOrder", "byId"}

VARIABLES tasks, nextId, prev, last, ops

vars == <<tasks, nextId, prev, last, ops>>

NoUpdates == << >>
NoOp == [op |-> "none", id |-> 0, columnId |-> "", order |-> 0,
         updates |-> NoUpdates, status |-> 0, message |-> "", cause |-> "none"]

\* What a handler leaves and answers: the store, the HTTP status, the message
\* of the response body, and the error that was caught ("none" on success).
Response(st, status, message, cause) ==
  [store |-> st, status |-> status, message |-> message, cause |-> cause]

\* Requests may be handled two at a time, each awaiting its store commands
\* one by one.
Procs == {1, 2}

\* A handler's position and locals: the call it awaits next (pc), the request
\* (id, columnId, order), the order computed for a new task (taskOrder), the
\* column and order read by its lookup (oldColumnId, oldOrder), whether it has
\* issued a write command, whether its findByIdAndDelete found the task to
\* remove, and its response.
NoProc == [op |-> "none", pc |-> "idle", id |-> 0, columnId |-> "", order |-> 0,
           taskOrder |-> 0, oldColumnId |-> "", oldOrder |-> 0, wrote |-> FALSE,
           removed |-> FALSE, status |-> 0, message |-> "", cause |-> "none"]

InvalidColumn(st) ==
  Response(st, 400,
           "Invalid columnId. Must be one of: todo, in-progress, completed",
           "BadRequest")

----------------------------------------------------------------------------
\* Store primitives

EmptyStore == [t \in {} |-> [columnId |-> "", order |-> 0]]

InColumn(st, c) == {t \in DOMAIN st : st[t].columnId = c}

Orders(st, c) == {st[t].order : t \in InColumn(st, c)}

\* Unique index without its unique option: no write is ever rejected.
DupKeyNotUnique(st, t, c, o) == FALSE

\* An index that counts the document being written among its rivals.
DupKeyIncludesSelf(st, t, c, o) ==
  \E u \in DOMAIN st : st[u].columnId = c /\ st[u].order = o

\* The unique compound index: writing (c, o) into document t is rejected
\* when another document already holds that key.
DupKey(st, t, c, o) ==
  \E u \in DOMAIN st \ {t} : st[u].columnId = c /\ st[u].order = o

PlanKey(st, t, plan) ==
  IF plan = "byOrder" THEN st[t].order * (MaxTasks + 1) + t ELSE t

NextDoc(st, pending, plan) ==
  CHOOSE t \in pending :
    \A u \in pending : PlanKey(st, t, plan) <= PlanKey(st, u, plan)

\* updateMany(filter, { $inc: { order: delta } }): the matched documents are
\* updated one at a time in plan order; each write is checked against the
\* unique index; the first rejected write aborts the command with E11000 and
\* the documents written before it stay written.
\* An update command that matches nothing and reports success.
updateManyMatchesNone(st, pending, delta, plan) == [store |-> st, code |-> 0]

RECURSIVE updateMany(_, _, _, _)
updateMany(st, pending, delta, plan) ==
  IF pending = {} THEN [store |-> st, code |-> 0]
  ELSE LET t == NextDoc(st, pending, plan)
           o == st[t].order + delta
       IN IF DupKey(st, t, st[t].columnId, o)
          THEN [store |-> st, code |-> 11000]
          ELSE updateMany([st EXCEPT ![t].order = o], pending \ {t}, delta, plan)

----------------------------------------------------------------------------
\* Task statics

Max(S) == CHOOSE x \in S : \A y \in S : y <= x

\* getNextOrder that restarts at 1 whatever the column holds.
getNextOrderAlwaysOne(st, columnId) == 1

getNextOrder(st, columnId) ==
  IF InColumn(st, columnId) = {} THEN 1 ELSE Max(Orders(st, columnId)) + 1

\* findOne whose filter is { order: { $gte: order } } instead of { order }.
findOneAtOrAbove(st, columnId, order) ==
  \E t \in InColumn(st, columnId) : st[t].order >= order

\* Task.findOne({ columnId, order }) finds a document.
findOne(st, columnId, order) ==
  \E t \in InColumn(st, columnId) : st[t].order = order

\* One updateOne of reorderTasks: the filter { _id, columnId } matches at most
\* one document; a document of another column, or none, is no match and no
\* error.  No validator runs on an update.
\* An update filtered by { _id } alone.
updateOneInAnyColumn(st, id, columnId, order) ==
  IF id \in DOMAIN st
  THEN IF DupKey(st, id, st[id].columnId, order)
       THEN [store |-> st, code |-> 11000]
       ELSE [store |-> [st EXCEPT ![id].order = order], code |-> 0]
  ELSE [store |-> st, code |-> 0]

updateOne(st, id, columnId, order) ==
  IF id \in DOMAIN st /\ st[id].columnId = columnId
  THEN IF DupKey(st, id, columnId, order)
       THEN [store |-> st, code |-> 11000]
       ELSE [store |-> [st EXCEPT ![id].order = order], code |-> 0]
  ELSE [store |-> st, code |-> 0]

\* A loop that catches each update's error on its own and goes on with the
\* rest of the list, reporting the failure at the end.
RECURSIVE reorderTasksKeepsGoing(_, _, _, _)
reorderTasksKeepsGoing(st, columnId, taskUpdates, i) ==
  IF i > Len(taskUpdates) THEN [store |-> st, code |-> 0]
  ELSE LET r == updateOne(st, taskUpdates[i].id, columnId, taskUpdates[i].order)
           rest == reorderTasksKeepsGoing(r.store, columnId, taskUpdates, i + 1)
       IN [store |-> rest.store,
           code |-> IF r.code # 0 THEN r.code ELSE rest.code]

\* reorderTasks: the updates are applied in list order, each on its own; the
\* first error ends the loop and is rethrown as a plain Error.
RECURSIVE reorderTasks(_, _, _, _)
reorderTasks(st, columnId, taskUpdates, i) ==
  IF i > Len(taskUpdates) THEN [store |-> st, code |-> 0]
  ELSE LET r == updateOne(st, taskUpdates[i].id, columnId, taskUpdates[i].order)
       IN IF r.code # 0 THEN r
          ELSE reorderTasks(r.store, columnId, taskUpdates, i + 1)

\* task.save() of moveTaskToColumn: schema validation (order min 1) first,
\* then the write of columnId and order, checked against the unique index.
saveMoved(st, id, newColumnId, newOrder) ==
  IF newOrder < 1 THEN [store |-> st, error |-> "ValidationError"]
  ELSE IF DupKey(st, id, newColumnId, newOrder)
       THEN [store |-> st, error |-> "E11000"]
       ELSE [store |-> [st EXCEPT ![id] = [columnId |-> newColumnId,
                                           order |-> newOrder]],
             error |-> "none"]

\* moveTaskToColumn.  Every error raised inside, the lookup's 'Task not found'
\* included, is caught and rethrown as Error('Failed to move task: ' + ...).
\* planS and planT are the plans of the (up to two) updateMany commands.
moveTaskToColumn(st, taskId, newColumnId, newOrder, planS, planT) ==
  IF taskId \notin DOMAIN st
  THEN [store |-> st, error |-> "Failed to move task: Task not found"]
  ELSE
    LET oldColumnId == st[taskId].columnId
        oldOrder == st[taskId].order
        s1 == IF oldColumnId # newColumnId
              THEN updateMany(st, {t \in InColumn(st, oldColumnId) :
                                     st[t].order > oldOrder}, -1, planS)
              ELSE IF newOrder < oldOrder
              THEN updateMany(st, {t \in InColumn(st, oldColumnId) :
                                     st[t].order >= newOrder /\ st[t].order < oldOrder},
                              1, planS)
              ELSE IF newOrder > oldOrder
              THEN updateMany(st, {t \in InColumn(st, oldColumnId) :
                                     st[t].order > oldOrder /\ st[t].order <= newOrder},
                              -1, planS)
              ELSE [store |-> st, code |-> 0]
        s2 == IF s1.code = 0 /\ oldColumnId # newColumnId
              THEN updateMany(s1.store, {t \in InColumn(s1.store, newColumnId) :
                                           s1.store[t].order >= newOrder}, 1, planT)
              ELSE s1
        s3 == saveMoved(s2.store, taskId, newColumnId, newOrder)
    IN IF s2.code # 0
       THEN [store |-> s2.store, error |-> "Failed to move task: E11000"]
       ELSE IF s3.error # "none"
            THEN [store |-> s3.store,
                  error |-> IF s3.error = "E11000"
                            THEN "Failed to move task: E11000"
                            ELSE "Failed to move task: validation failed"]
            ELSE s3

----------------------------------------------------------------------------
\* Route handlers of /api/tasks: the store they leave and the HTTP status sent

\* A save that stores the new document one position too far.
saveNewOffByOne(st, id, columnId, order) ==
  IF order < 1
  THEN Response(st, 400, "Order must be at least 1", "ValidationError")
  ELSE IF DupKey(st, id, columnId, order + 1)
  THEN Response(st, 400, "A task with this order already exists in the column",
                "E11000")
  ELSE Response([t \in DOMAIN st \cup {id} |->
                   IF t = id THEN [columnId |-> columnId, order |-> order + 1]
                   ELSE st[t]],
                201, "", "none")

\* A save that, finding its key taken, tries again at the next free order.
saveNewRetrying(st, id, columnId, order) ==
  IF order < 1
  THEN Response(st, 400, "Order must be at least 1", "ValidationError")
  ELSE Response([t \in DOMAIN st \cup {id} |->
                   IF t = id
                   THEN [columnId |-> columnId,
                         order |-> IF DupKey(st, id, columnId, order)
                                   THEN getNextOrder(st, columnId) ELSE order]
                   ELSE st[t]],
                201, "", "none")

\* task.save() of a new document: validation (order min 1), then the insert,
\* checked against the unique index.  Both failures are answered with 400,
\* each with its own message.
saveNew(st, id, columnId, order) ==
  IF order < 1
  THEN Response(st, 400, "Order must be at least 1", "ValidationError")
  ELSE IF DupKey(st, id, columnId, order)
  THEN Response(st, 400, "A task with this order already exists in the column",
                "E11000")
  ELSE Response([t \in DOMAIN st \cup {id} |->
                   IF t = id THEN [columnId |-> columnId, order |-> order]
                   ELSE st[t]],
                201, "", "none")

\* POST /api/tasks
postTask(st, id, columnId, order, plan) ==
  IF columnId \notin validColumns THEN InvalidColumn(st)
  ELSE IF order = 0
  THEN saveNew(st, id, columnId, getNextOrder(st, columnId))
  ELSE IF findOne(st, columnId, order)
  THEN LET r == updateMany(st, {t \in InColumn(st, columnId) :
                                  st[t].order >= order}, 1, plan)
       IN IF r.code # 0
          THEN Response(r.store, 400,
                        "A task with this order already exists in the column",
                        "E11000")
          ELSE saveNew(r.store, id, columnId, order)
  ELSE saveNew(st, id, columnId, order)

\* What the engine's error is, stripped of the prefix moveTaskToColumn adds.
moveCause(error) ==
  IF error = "none" THEN "none"
  ELSE IF error = "Failed to move task: Task not found" THEN "NotFound"
  ELSE IF error = "Failed to move task: E11000" THEN "E11000"
  ELSE IF error = "Failed to move task: validation failed" THEN "ValidationError"
  ELSE "DocumentNotFoundError"

\* The catch block of PUT /api/tasks/:id.  The error it sees is the plain
\* Error moveTaskToColumn rethrows: its message is never 'Task not found' and
\* its name is never 'ValidationError', whatever was thrown inside.
putCatch(st, error) ==
  IF error = "none" THEN Response(st, 200, "", "none")
  ELSE IF error = "Task not found"
  THEN Response(st, 404, "Task not found", moveCause(error))
  ELSE Response(st, 500, "Failed to update task", moveCause(error))

\* PUT /api/tasks/:id.  isMove is FALSE for a request without columnId or
\* order: a plain update of title and description.
putTask(st, id, isMove, columnId, order, planS, planT) ==
  IF id \notin DOMAIN st THEN Response(st, 404, "Task not found", "NotFound")
  ELSE IF ~isMove THEN Response(st, 200, "", "none")
  ELSE IF columnId \notin validColumns THEN InvalidColumn(st)
  ELSE LET r == moveTaskToColumn(st, id, columnId, order, planS, planT)
       IN putCatch(r.store, r.error)

\* A delete without the null check on the lookup's result: reading the
\* column of a task that was not found throws, and the catch answers 500.
deleteTaskUnchecked(st, id, plan) ==
  IF id \notin DOMAIN st
  THEN Response(st, 500, "Failed to delete task", "TypeError")
  ELSE LET removed == [t \in DOMAIN st \ {id} |-> st[t]]
           r == updateMany(removed,
                           {t \in InColumn(removed, st[id].columnId) :
                              removed[t].order > st[id].order}, -1, plan)
       IN IF r.code = 0
          THEN Response(r.store, 200, "Task deleted successfully", "none")
          ELSE Response(r.store, 500, "Failed to delete task", "E11000")

\* DELETE /api/tasks/:id
deleteTask(st, id, plan) ==
  IF id \notin DOMAIN st THEN Response(st, 404, "Task not found", "NotFound")
  ELSE LET removed == [t \in DOMAIN st \ {id} |-> st[t]]
           r == updateMany(removed,
                           {t \in InColumn(removed, st[id].columnId) :
                              removed[t].order > st[id].order}, -1, plan)
       IN IF r.code = 0
          THEN Response(r.store, 200, "Task deleted successfully", "none")
          ELSE Response(r.store, 500, "Failed to delete task", "E11000")

\* POST /api/tasks/reorder
reorderRoute(st, columnId, updates) ==
  IF columnId \notin validColumns THEN InvalidColumn(st)
  ELSE IF \E i \in 1..Len(updates) : updates[i].order = 0
  THEN Response(st, 400, "Each task must have _id and order fields",
                "BadRequest")
  ELSE LET r == reorderTasks(st, columnId, updates, 1)
       IN IF r.code = 0 THEN Response(r.store, 200, "", "none")
          ELSE Response(r.store, 500, "Failed to reorder tasks", "E11000")

\* The answer of a route's catch block to an error it does not single out:
\* a lost connection, a timeout, any other failure of the store.
catchAll(op) ==
  [status |-> 500,
   message |-> IF op = "insertTask" THEN "Failed to create task"
               ELSE IF op = "deleteTask" THEN "Failed to delete task"
               ELSE IF op = "bulkReorder" THEN "Failed to reorder tasks"
               ELSE "Failed to update task"]

----------------------------------------------------------------------------
\* The board, one request at a time

Capped(st) == \A t \in DOMAIN st : st[t].order <= OrderCap

\* Lists a /reorder request carries: each task at most once, every order
\* positive, and the one-entry lists with a falsy order or a negative one.
UpdateLists ==
  {u \in UNION {[1..n -> [id : Ids, order : OrderInputs]] : n \in 0..MaxUpdates} :
     /\ \A i, j \in 1..Len(u) : i # j => u[i].id # u[j].id
     /\ Len(u) > 1 => \A i \in 1..Len(u) : u[i].order # 0}
    \cup {<<[id |-> t, order |-> -1]>> : t \in Ids}

ReorderRequests ==
  [columnId : validColumns, updates : UpdateLists]
    \cup {[columnId |-> "archived", updates |-> NoUpdates]}

Init ==
  /\ tasks = EmptyStore
  /\ nextId = 1
  /\ prev = EmptyStore
  /\ last = NoOp
  /\ ops = [p \in Procs |-> NoProc]

\* No request is being answered.
Idle == last.op = "none"

\* No request is in flight step by step.
Quiet == \A p \in Procs : ops[p].pc = "idle"

\* A handler runs to completion on the current store; prev keeps the store the
\* request found and last the request and the status sent back.
Done(op, id, columnId, order, updates, r) ==
  /\ Capped(r.store)
  /\ tasks' = r.store
  /\ prev' = tasks
  /\ last' = [op |-> op, id |-> id, columnId |-> columnId, order |-> order,
              updates |-> updates, status |-> r.status,
              message |-> r.message, cause |-> r.cause]
  /\ UNCHANGED ops

InsertTask ==
  /\ Idle
  /\ \E to \in Targets, plan \in Plans :
    /\ nextId <= MaxTasks
    /\ \E r \in {postTask(tasks, nextId, to.columnId, to.order, plan)} :
         /\ Done("insertTask", nextId, to.columnId, to.order, NoUpdates, r)
         /\ nextId' = IF r.status = 201 THEN nextId + 1 ELSE nextId

MoveTask ==
  /\ Idle
  /\ \E id \in Ids, to \in Targets, planS \in Plans, planT \in Plans :
    /\ \E r \in {putTask(tasks, id, TRUE, to.columnId, to.order, planS, planT)} :
         Done("moveTask", id, to.columnId, to.order, NoUpdates, r)
    /\ UNCHANGED nextId

UpdateTask ==
  /\ Idle
  /\ \E id \in Ids :
    /\ \E r \in {putTask(tasks, id, FALSE, "", 0, "byOrder", "byOrder")} :
         Done("updateTask", id, "", 0, NoUpdates, r)
    /\ UNCHANGED nextId

DeleteTask ==
  /\ Idle
  /\ \E id \in Ids, plan \in Plans :
    /\ \E r \in {deleteTask(tasks, id, plan)} :
         Done("deleteTask", id, "", 0, NoUpdates, r)
    /\ UNCHANGED nextId

BulkReorder ==
  /\ Idle
  /\ \E rq \in ReorderRequests :
    /\ \E r \in {reorderRoute(tasks, rq.columnId, rq.updates)} :
         Done("bulkReorder", 0, rq.columnId, 0, rq.updates, r)
    /\ UNCHANGED nextId

\* The response has been delivered; the next request may be handled.
Respond ==
  /\ ~Idle
  /\ Quiet
  /\ last' = NoOp
  /\ prev' = tasks
  /\ UNCHANGED <<tasks, nextId, ops>>

Next ==
  InsertTask \/ MoveTask \/ UpdateTask \/ DeleteTask \/ BulkReorder \/ Respond

Spec == Init /\ [][Next]_vars

\* The board under creations and deletions only.  Inserts at explicit free
\* orders and deletes reach every placement of tasks the full board reaches.
NextInsert == InsertTask \/ DeleteTask \/ Respond

SpecInsert == Init /\ [][NextInsert]_vars

\* The board under creations and moves.
NextMove == InsertTask \/ MoveTask \/ Respond

SpecMove == Init /\ [][NextMove]_vars

\* The task a move has just taken to another column is moved back, by the
\* next request, to the column and order it had; prev keeps the store found
\* by the first of the two moves.
MoveBack ==
  /\ last.op = "moveTask"
  /\ last.status = 200
  /\ last.id \in DOMAIN prev
  /\ prev[last.id].columnId # last.columnId
  /\ \E planS \in Plans, planT \in Plans :
       \E r \in {putTask(tasks, last.id, TRUE, prev[last.id].columnId,
                         prev[last.id].order, planS, planT)} :
         /\ Capped(r.store)
         /\ tasks' = r.store
         /\ last' = [last EXCEPT !.op = "moveBack", !.status = r.status,
                                 !.message = r.message, !.cause = r.cause]
  /\ UNCHANGED <<nextId, prev, ops>>

NextMoveBack == InsertTask \/ MoveTask \/ MoveBack \/ Respond

SpecMoveBack == Init /\ [][NextMoveBack]_vars

\* The board under creations and bulk reorders.
NextReorder == InsertTask \/ BulkReorder \/ Respond

SpecReorder == Init /\ [][NextReorder]_vars

TypeOK ==
  /\ nextId \in 1..(MaxTasks + 1)
  /\ DOMAIN tasks \subseteq Ids
  /\ \A t \in DOMAIN tasks : tasks[t].columnId \in validColumns

----------------------------------------------------------------------------
\* Requests in flight together.  A handler gives up control at each await;
\* each store command it awaits is one step, and the steps of two handlers
\* interleave freely.

NoRequest == [op |-> "none", id |-> 0, columnId |-> "", order |-> 0]

InsertRequests ==
  [op : {"insertTask"}, id : {0}, columnId : validColumns, order : OrderInputs]

DeleteRequests ==
  [op : {"deleteTask"}, id : Ids, columnId : {""}, order : {0}]

MoveRequests ==
  [op : {"moveTask"}, id : Ids, columnId : validColumns, order : OrderInputs]

\* The first store command a handler awaits.
FirstCall(rq) ==
  IF rq.op = "insertTask"
  THEN (IF rq.order = 0 THEN "getNextOrder" ELSE "findOne")
  ELSE IF rq.op = "none" THEN "idle"
  ELSE "findById"

Start(rq) ==
  [NoProc EXCEPT !.op = rq.op, !.pc = FirstCall(rq), !.id = rq.id,
                 !.columnId = rq.columnId, !.order = rq.order]

\* Both requests arrive; prev keeps the store they found.
Launch(rq1, rq2) ==
  /\ Idle
  /\ Quiet
  /\ nextId + Cardinality({i \in {1, 2} :
                             (IF i = 1 THEN rq1 ELSE rq2).op = "insertTask"})
       <= MaxTasks + 1
  /\ ops' = [p \in Procs |-> Start(IF p = 1 THEN rq1 ELSE rq2)]
  /\ prev' = tasks
  /\ last' = [NoOp EXCEPT !.op = "concurrent"]
  /\ UNCHANGED <<tasks, nextId>>

At(p, op, pc) == ops[p].op = op /\ ops[p].pc = pc

\* The handler of p goes on to await call pc.
Await(p, proc, pc) == ops' = [ops EXCEPT ![p] = [proc EXCEPT !.pc = pc]]

\* The handler of p sends its response.
Answer(p, proc, r) ==
  ops' = [ops EXCEPT ![p] = [proc EXCEPT !.pc = "done", !.status = r.status,
                                         !.message = r.message,
                                         !.cause = r.cause]]

\* A write command of p is applied to the store.
Write(st) == Capped(st) /\ tasks' = st

\* { columnId: c, order: { $gt: o } } matching every column
AboveInAnyColumn(st, c, o) == {t \in DOMAIN st : st[t].order > o}

\* { columnId: c, order: { $gt: o } }
Above(st, c, o) == {t \in InColumn(st, c) : st[t].order > o}

\* { columnId: c, order: { $gte: o } }
AtOrAbove(st, c, o) == {t \in InColumn(st, c) : st[t].order >= o}

\* POST /api/tasks, const taskOrder = await Task.getNextOrder(columnId)
PostGetNextOrder ==
  \E p \in Procs :
    /\ At(p, "insertTask", "getNextOrder")
    /\ Await(p, [ops[p] EXCEPT !.taskOrder = getNextOrder(tasks, ops[p].columnId)],
             "save")
    /\ UNCHANGED <<tasks, nextId, prev, last>>

\* POST /api/tasks, const existingTask = await Task.findOne({columnId, order})
PostFindOne ==
  \E p \in Procs :
    /\ At(p, "insertTask", "findOne")
    /\ Await(p, [ops[p] EXCEPT !.taskOrder = ops[p].order],
             IF findOne(tasks, ops[p].columnId, ops[p].order)
             THEN "updateMany" ELSE "save")
    /\ UNCHANGED <<tasks, nextId, prev, last>>

\* POST /api/tasks, await Task.updateMany({columnId, order: {$gte}}, {$inc: 1})
PostUpdateMany ==
  \E p \in Procs, plan \in Plans :
    /\ At(p, "insertTask", "updateMany")
    /\ LET proc == [ops[p] EXCEPT !.wrote = TRUE]
           r == updateMany(tasks,
                           AtOrAbove(tasks, proc.columnId, proc.taskOrder),
                           1, plan)
       IN /\ Write(r.store)
          /\ IF r.code # 0
             THEN Answer(p, proc,
                    Response(r.store, 400,
                      "A task with this order already exists in the column",
                      "E11000"))
             ELSE Await(p, proc, "save")
    /\ UNCHANGED <<nextId, prev, last>>

\* POST /api/tasks, await task.save()
PostSave ==
  \E p \in Procs :
    /\ At(p, "insertTask", "save")
    /\ nextId <= MaxTasks
    /\ LET r == saveNew(tasks, nextId, ops[p].columnId, ops[p].taskOrder)
       IN /\ Write(r.store)
          /\ nextId' = IF r.status = 201 THEN nextId + 1 ELSE nextId
          /\ Answer(p, [ops[p] EXCEPT !.wrote = TRUE,
                                      !.id = IF r.status = 201 THEN nextId ELSE 0],
                    r)
    /\ UNCHANGED <<prev, last>>

\* DELETE /api/tasks/:id, const task = await Task.findById(id)
DeleteFindById ==
  \E p \in Procs :
    /\ At(p, "deleteTask", "findById")
    /\ IF ops[p].id \notin DOMAIN tasks
       THEN Answer(p, ops[p], Response(tasks, 404, "Task not found", "NotFound"))
       ELSE Await(p, [ops[p] EXCEPT !.oldColumnId = tasks[ops[p].id].columnId,
                                    !.oldOrder = tasks[ops[p].id].order],
                  "findByIdAndDelete")
    /\ UNCHANGED <<tasks, nextId, prev, last>>

\* DELETE /api/tasks/:id, await Task.findByIdAndDelete(id): a task already
\* gone is no error.
DeleteFindByIdAndDelete ==
  \E p \in Procs :
    /\ At(p, "deleteTask", "findByIdAndDelete")
    /\ Write([t \in DOMAIN tasks \ {ops[p].id} |-> tasks[t]])
    /\ Await(p, [ops[p] EXCEPT !.wrote = TRUE,
                                !.removed = ops[p].id \in DOMAIN tasks],
             "updateMany")
    /\ UNCHANGED <<nextId, prev, last>>

\* DELETE /api/tasks/:id, await Task.updateMany({columnId: task.columnId,
\* order: {$gt: task.order}}, {$inc: -1})
DeleteUpdateMany ==
  \E p \in Procs, plan \in Plans :
    /\ At(p, "deleteTask", "updateMany")
    /\ LET r == updateMany(tasks,
                           Above(tasks, ops[p].oldColumnId, ops[p].oldOrder),
                           -1, plan)
       IN /\ Write(r.store)
          /\ Answer(p, ops[p],
               IF r.code = 0
               THEN Response(r.store, 200, "Task deleted successfully", "none")
               ELSE Response(r.store, 500, "Failed to delete task", "E11000"))
    /\ UNCHANGED <<nextId, prev, last>>

\* PUT /api/tasks/:id, const existingTask = await Task.findById(id)
PutFindById ==
  \E p \in Procs :
    /\ At(p, "moveTask", "findById")
    /\ IF ops[p].id \notin DOMAIN tasks
       THEN Answer(p, ops[p], Response(tasks, 404, "Task not found", "NotFound"))
       ELSE Await(p, ops[p], "moveTaskToColumn")
    /\ UNCHANGED <<tasks, nextId, prev, last>>

\* moveTaskToColumn, const task = await this.findById(taskId)
MoveFindById ==
  \E p \in Procs :
    /\ At(p, "moveTask", "moveTaskToColumn")
    /\ IF ops[p].id \notin DOMAIN tasks
       THEN Answer(p, ops[p],
                   putCatch(tasks, "Failed to move task: Task not found"))
       ELSE LET task == tasks[ops[p].id]
            IN Await(p, [ops[p] EXCEPT !.oldColumnId = task.columnId,
                                       !.oldOrder = task.order],
                     IF task.columnId # ops[p].columnId THEN "shiftOld"
                     ELSE IF task.order # ops[p].order THEN "shiftWithin"
                     ELSE "save")
    /\ UNCHANGED <<tasks, nextId, prev, last>>

\* An updateMany of moveTaskToColumn: rejected, the move is over; applied, the
\* handler goes on to await call pc.
MoveUpdateMany(p, r, pc) ==
  /\ Write(r.store)
  /\ IF r.code # 0
     THEN Answer(p, [ops[p] EXCEPT !.wrote = TRUE],
                 putCatch(r.store, "Failed to move task: E11000"))
     ELSE Await(p, [ops[p] EXCEPT !.wrote = TRUE], pc)
  /\ UNCHANGED <<nextId, prev, last>>

\* moveTaskToColumn, different columns: the old column closes the gap.
MoveShiftOld ==
  \E p \in Procs, plan \in Plans :
    /\ At(p, "moveTask", "shiftOld")
    /\ MoveUpdateMany(p,
         updateMany(tasks, Above(tasks, ops[p].oldColumnId, ops[p].oldOrder),
                    -1, plan),
         "shiftNew")

\* moveTaskToColumn, different columns: the new column makes room.
MoveShiftNew ==
  \E p \in Procs, plan \in Plans :
    /\ At(p, "moveTask", "shiftNew")
    /\ MoveUpdateMany(p,
         updateMany(tasks, AtOrAbove(tasks, ops[p].columnId, ops[p].order),
                    1, plan),
         "save")

\* moveTaskToColumn, same column: the tasks between the two orders shift.
MoveShiftWithin ==
  \E p \in Procs, plan \in Plans :
    /\ At(p, "moveTask", "shiftWithin")
    /\ LET o == ops[p]
       IN MoveUpdateMany(p,
            IF o.order < o.oldOrder
            THEN updateMany(tasks, {t \in InColumn(tasks, o.oldColumnId) :
                                      /\ tasks[t].order >= o.order
                                      /\ tasks[t].order < o.oldOrder}, 1, plan)
            ELSE updateMany(tasks, {t \in InColumn(tasks, o.oldColumnId) :
                                      /\ tasks[t].order > o.oldOrder
                                      /\ tasks[t].order <= o.order}, -1, plan),
            "save")

\* task.save() of the document the lookup loaded: validation of the paths
\* that were modified, then an update of those paths only, checked against
\* the unique index.  For a document that has been deleted meanwhile the
\* update matches nothing: Mongoose raises DocumentNotFoundError or, in its
\* older versions, reports success.
saveLoaded(st, proc) ==
  IF proc.order # proc.oldOrder /\ proc.order < 1
  THEN {[store |-> st, error |-> "Failed to move task: validation failed"]}
  ELSE IF proc.id \notin DOMAIN st
  THEN {[store |-> st, error |-> "Failed to move task: document not found"],
        [store |-> st, error |-> "none"]}
  ELSE LET doc == [columnId |-> IF proc.columnId # proc.oldColumnId
                                THEN proc.columnId ELSE st[proc.id].columnId,
                   order |-> IF proc.order # proc.oldOrder
                             THEN proc.order ELSE st[proc.id].order]
       IN IF DupKey(st, proc.id, doc.columnId, doc.order)
          THEN {[store |-> st, error |-> "Failed to move task: E11000"]}
          ELSE {[store |-> [st EXCEPT ![proc.id] = doc], error |-> "none"]}

\* moveTaskToColumn, task.columnId = ...; task.order = ...; await task.save()
MoveSave ==
  \E p \in Procs :
    /\ At(p, "moveTask", "save")
    /\ \E r \in saveLoaded(tasks, ops[p]) :
         /\ Write(r.store)
         /\ Answer(p, [ops[p] EXCEPT !.wrote = TRUE], putCatch(r.store, r.error))
    /\ UNCHANGED <<nextId, prev, last>>

PostSteps == PostGetNextOrder \/ PostFindOne \/ PostUpdateMany \/ PostSave

DeleteSteps == DeleteFindById \/ DeleteFindByIdAndDelete \/ DeleteUpdateMany

MoveSteps ==
  \/ PutFindById
  \/ MoveFindById
  \/ MoveShiftOld
  \/ MoveShiftNew
  \/ MoveShiftWithin
  \/ MoveSave

\* Two creations without an order arrive together.
LaunchAppends ==
  /\ Idle
  /\ Quiet
  /\ \E rq1, rq2 \in {rq \in InsertRequests : rq.order = 0} : Launch(rq1, rq2)

NextAppends ==
  InsertTask \/ Respond \/ LaunchAppends \/ PostGetNextOrder \/ PostSave

SpecAppends == Init /\ [][NextAppends]_vars

\* A move and a delete of the same task arrive together.
LaunchMoveAndDelete ==
  /\ Idle
  /\ Quiet
  /\ \E rq1 \in MoveRequests, rq2 \in DeleteRequests :
       rq1.id = rq2.id /\ Launch(rq1, rq2)

NextMoveAndDelete ==
  InsertTask \/ Respond \/ LaunchMoveAndDelete \/ MoveSteps \/ DeleteSteps

SpecMoveAndDelete == Init /\ [][NextMoveAndDelete]_vars

\* The columns a request reads or writes tasks of, on the store it finds: the
\* column it names and the column its task is in.
Touched(st, rq) ==
  (IF rq.op \in {"insertTask", "moveTask"} THEN {rq.columnId} ELSE {})
    \cup (IF rq.id \in DOMAIN st THEN {st[rq.id].columnId} ELSE {})

\* Two requests that touch no column in common arrive together.  The routes
\* treat the three columns alike, so the first request is taken to touch
\* todo and the second in-progress.
LaunchDisjoint ==
  /\ Idle
  /\ Quiet
  /\ \E rq1, rq2 \in InsertRequests \cup DeleteRequests \cup MoveRequests :
       /\ "todo" \in Touched(tasks, rq1)
       /\ "in-progress" \in Touched(tasks, rq2)
       /\ Touched(tasks, rq1) \cap Touched(tasks, rq2) = {}
       /\ Launch(rq1, rq2)

NextDisjoint ==
  InsertTask \/ Respond \/ LaunchDisjoint \/ PostSteps \/ DeleteSteps \/ MoveSteps

SpecDisjoint == Init /\ [][NextDisjoint]_vars

\* A move of a task to another column arrives on a board that creations and
\* moves have made, and is followed store command by store command.
LaunchMoveAcross ==
  /\ Idle
  /\ Quiet
  /\ \E rq \in MoveRequests :
       /\ rq.id \in DOMAIN tasks
       /\ tasks[rq.id].columnId # rq.columnId
       /\ Launch(rq, NoRequest)

NextMoveSteps ==
  \/ InsertTask
  \/ MoveTask
  \/ Respond
  \/ LaunchMoveAcross
  \/ PutFindById
  \/ MoveFindById
  \/ MoveShiftOld
  \/ MoveShiftNew
  \/ MoveSave

SpecMoveSteps == Init /\ [][NextMoveSteps]_vars

\* Two deletes of one stored task arrive together.
LaunchDeleteTwice ==
  /\ Idle
  /\ Quiet
  /\ \E rq \in DeleteRequests : rq.id \in DOMAIN tasks /\ Launch(rq, rq)

NextDeleteTwice == InsertTask \/ Respond \/ LaunchDeleteTwice \/ DeleteSteps

SpecDeleteTwice == Init /\ [][NextDeleteTwice]_vars

\* Two requests that both touch todo arrive together on a board of dense
\* columns, each of them a creation or naming a stored task.
LaunchSameColumn ==
  /\ Idle
  /\ Quiet
  /\ \A c \in validColumns : Orders(tasks, c) = 1..Cardinality(InColumn(tasks, c))
  /\ \E rq1, rq2 \in InsertRequests \cup DeleteRequests \cup MoveRequests :
       /\ "todo" \in Touched(tasks, rq1) \cap Touched(tasks, rq2)
       /\ \A rq \in {rq1, rq2} : rq.op = "insertTask" \/ rq.id \in DOMAIN tasks
       /\ Launch(rq1, rq2)

NextSameColumn ==
  InsertTask \/ Respond \/ LaunchSameColumn \/ PostSteps \/ DeleteSteps \/ MoveSteps

SpecSameColumn == Init /\ [][NextSameColumn]_vars

\* Every request in flight has been answered.
AllDone == ~Quiet /\ \A p \in Procs : ops[p].pc \in {"idle", "done"}

----------------------------------------------------------------------------
\* Vocabulary of the properties

\* The column holds orders exactly 1..N, N its number of tasks.
Dense(st, c) == Orders(st, c) = 1..Cardinality(InColumn(st, c))

Unique(st, c) ==
  \A t, u \in InColumn(st, c) : t # u => st[t].order # st[u].order

\* Some task of column c is at order k.
Occupied(st, c, k) == \E t \in InColumn(st, c) : st[t].order = k

\* Task t is stored now exactly as the request found it.
Kept(t) == t \in DOMAIN tasks /\ tasks[t] = prev[t]

\* Task t is in the column the request found it in, its order changed by d.
Shifted(t, d) ==
  /\ t \in DOMAIN tasks
  /\ tasks[t].columnId = prev[t].columnId
  /\ tasks[t].order = prev[t].order + d

----------------------------------------------------------------------------
\* C1: whatever requests have been handled, one at a time, from the empty
\* board, no two tasks of one column have the same order.
C1_Uniqueness == \A c \in validColumns : Unique(tasks, c)

\* A bulk reorder that asked for an order another task of the column holds
\* has been answered, on a column of at least two tasks.
C1_Witness ==
  /\ last.op = "bulkReorder"
  /\ last.status = 500
  /\ Cardinality(InColumn(tasks, last.columnId)) >= 2

----------------------------------------------------------------------------
\* C2: in a column with orders 1..N, moving the task at order o to another
\* order n of 1..N in the same column succeeds, leaves the task at n, raises
\* by one the tasks that were in [n, o) when n < o, lowers by one the tasks
\* that were in (o, n] when n > o, and keeps every other task.
C2_Case ==
  /\ last.op = "moveTask"
  /\ last.id \in DOMAIN prev
  /\ last.columnId = prev[last.id].columnId
  /\ Dense(prev, last.columnId)
  /\ last.order \in 1..Cardinality(InColumn(prev, last.columnId))
  /\ last.order # prev[last.id].order

C2_MoveWithinColumn ==
  C2_Case =>
    LET o == prev[last.id].order
        n == last.order
    IN /\ last.status = 200
       /\ DOMAIN tasks = DOMAIN prev
       /\ tasks[last.id] = [columnId |-> last.columnId, order |-> n]
       /\ \A t \in DOMAIN prev \ {last.id} :
            IF prev[t].columnId = last.columnId /\ n < o
               /\ prev[t].order >= n /\ prev[t].order < o
            THEN Shifted(t, 1)
            ELSE IF prev[t].columnId = last.columnId /\ n > o
                    /\ prev[t].order > o /\ prev[t].order <= n
            THEN Shifted(t, -1)
            ELSE Kept(t)

----------------------------------------------------------------------------
\* C3: moving the task at order os of column Cs to order ot of another column
\* Ct, both columns with orders 1..N and 1 <= ot <= size(Ct) + 1, succeeds,
\* lowers by one the tasks of Cs that were above os, raises by one the tasks
\* of Ct that were at or above ot, leaves the moved task in Ct at ot and keeps
\* every other task.
C3_Case ==
  /\ last.op = "moveTask"
  /\ last.id \in DOMAIN prev
  /\ last.columnId \in validColumns
  /\ last.columnId # prev[last.id].columnId
  /\ Dense(prev, prev[last.id].columnId)
  /\ Dense(prev, last.columnId)
  /\ last.order \in 1..(Cardinality(InColumn(prev, last.columnId)) + 1)

C3_MoveAcrossColumns ==
  C3_Case =>
    LET Cs == prev[last.id].columnId
        os == prev[last.id].order
    IN /\ last.status = 200
       /\ DOMAIN tasks = DOMAIN prev
       /\ tasks[last.id] = [columnId |-> last.columnId, order |-> last.order]
       /\ \A t \in DOMAIN prev \ {last.id} :
            IF prev[t].columnId = Cs /\ prev[t].order > os
            THEN Shifted(t, -1)
            ELSE IF prev[t].columnId = last.columnId
                    /\ prev[t].order >= last.order
            THEN Shifted(t, 1)
            ELSE Kept(t)

----------------------------------------------------------------------------
\* C4: a column that holds N tasks, at orders 1..N, when one of its tasks is
\* deleted holds the orders 1..N-1 once the delete is done, with no gap and
\* no duplicate.  (The claim is read on the dense columns the ordering
\* invariant speaks of; on a column with a gap it fails all the more.)
C4_Case ==
  /\ last.op = "deleteTask"
  /\ last.id \in DOMAIN prev
  /\ Dense(prev, prev[last.id].columnId)

C4_DeleteDensity ==
  C4_Case =>
    LET C == prev[last.id].columnId
    IN /\ Orders(tasks, C) = 1..(Cardinality(InColumn(prev, C)) - 1)
       /\ Cardinality(InColumn(tasks, C)) = Cardinality(InColumn(prev, C)) - 1

----------------------------------------------------------------------------
\* C5: deleting an existing task of column C and order d removes that task
\* and no other, lowers by one every other task of C that was above d, and
\* keeps every task of C below d and every task of the other columns.
C5_Case ==
  /\ last.op = "deleteTask"
  /\ last.id \in DOMAIN prev

C5_DeleteCompacts ==
  C5_Case =>
    /\ DOMAIN tasks = DOMAIN prev \ {last.id}
    /\ \A t \in DOMAIN prev \ {last.id} :
         IF prev[t].columnId = prev[last.id].columnId
            /\ prev[t].order > prev[last.id].order
         THEN Shifted(t, -1)
         ELSE Kept(t)

----------------------------------------------------------------------------
\* C6: inserting at an explicit order k that a task of column C already
\* holds raises by one every task of C at or above k, writes the new task at
\* k and succeeds, no two tasks of C sharing an order afterwards.
C6_Case ==
  /\ last.op = "insertTask"
  /\ last.columnId \in validColumns
  /\ last.order >= 1
  /\ Occupied(prev, last.columnId, last.order)

C6_InsertWithShift ==
  C6_Case =>
    /\ last.status = 201
    /\ DOMAIN tasks = DOMAIN prev \cup {last.id}
    /\ last.id \notin DOMAIN prev
    /\ tasks[last.id] = [columnId |-> last.columnId, order |-> last.order]
    /\ \A t \in DOMAIN prev :
         IF prev[t].columnId = last.columnId /\ prev[t].order >= last.order
         THEN Shifted(t, 1)
         ELSE Kept(t)
    /\ Unique(tasks, last.columnId)

----------------------------------------------------------------------------
\* C7: an insert at an explicit order k that no task of column C holds, while
\* some task of C is above k.
C7_Case ==
  /\ last.op = "insertTask"
  /\ last.columnId \in validColumns
  /\ last.order >= 1
  /\ ~Occupied(prev, last.columnId, last.order)
  /\ \E t \in InColumn(prev, last.columnId) : prev[t].order > last.order

\* C7 as claimed: such an insert raises by one every task of C at or above k
\* and writes the new task at k.
C7_ShiftsWhenOnlyAbove ==
  C7_Case =>
    /\ last.id \in DOMAIN tasks
    /\ tasks[last.id] = [columnId |-> last.columnId, order |-> last.order]
    /\ \A t \in InColumn(prev, last.columnId) :
         prev[t].order >= last.order => Shifted(t, 1)

\* C7 as amended: such an insert shifts no task; the tasks of C above k keep
\* their orders and the new task is written at k.
C7_NoShiftWhenOnlyAbove ==
  C7_Case =>
    /\ last.status = 201
    /\ last.id \in DOMAIN tasks
    /\ tasks[last.id] = [columnId |-> last.columnId, order |-> last.order]
    /\ \A t \in InColumn(prev, last.columnId) :
         prev[t].order > last.order => Kept(t)

C7_Witness == C7_Case /\ last.status = 201

----------------------------------------------------------------------------
\* C8: an insert at an explicit positive order k that no task of column C
\* holds, k far above the size of C included, writes the new task at exactly
\* k and changes the order and the column of no existing task.
C8_Case ==
  /\ last.op = "insertTask"
  /\ last.columnId \in validColumns
  /\ last.order >= 1
  /\ ~Occupied(prev, last.columnId, last.order)

C8_InsertAtFreeOrder ==
  C8_Case =>
    /\ last.status = 201
    /\ DOMAIN tasks = DOMAIN prev \cup {last.id}
    /\ last.id \notin DOMAIN prev
    /\ tasks[last.id] = [columnId |-> last.columnId, order |-> last.order]
    /\ \A t \in DOMAIN prev : Kept(t)

\* The new task went more than one position past the end of its column,
\* which holds other tasks.
C8_Witness ==
  /\ C8_Case
  /\ last.status = 201
  /\ InColumn(prev, last.columnId) # {}
  /\ last.order > Cardinality(InColumn(prev, last.columnId)) + 1

----------------------------------------------------------------------------
\* C9: an insert without an order is written at the next order of its column,
\* the largest order there plus one, or 1 in an empty column: above every
\* order the column held, and no existing task is shifted.
C9_Case ==
  /\ last.op = "insertTask"
  /\ last.columnId \in validColumns
  /\ last.order = 0

C9_AppendAtNextOrder ==
  C9_Case =>
    /\ last.status = 201
    /\ DOMAIN tasks = DOMAIN prev \cup {last.id}
    /\ last.id \notin DOMAIN prev
    /\ tasks[last.id].columnId = last.columnId
    /\ tasks[last.id].order >= 1
    /\ \A o \in Orders(prev, last.columnId) : tasks[last.id].order > o
    /\ \E o \in Orders(prev, last.columnId) \cup {0} :
         tasks[last.id].order = o + 1
    /\ \A t \in DOMAIN prev : Kept(t)

\* The append landed behind tasks that leave a gap below it.
C9_Witness ==
  /\ C9_Case
  /\ last.status = 201
  /\ Cardinality(InColumn(prev, last.columnId)) >= 1
  /\ tasks[last.id].order > Cardinality(InColumn(prev, last.columnId)) + 1

----------------------------------------------------------------------------
\* C10: on a column with N tasks at orders 1..N, a bulk reorder whose list
\* gives those N tasks a permutation of 1..N succeeds, leaves every listed
\* task at its supplied order and changes no task outside the list.
ListedIds(updates) == {updates[i].id : i \in 1..Len(updates)}

C10_Case ==
  /\ last.op = "bulkReorder"
  /\ last.columnId \in validColumns
  /\ Dense(prev, last.columnId)
  /\ ListedIds(last.updates) = InColumn(prev, last.columnId)
  /\ {last.updates[i].order : i \in 1..Len(last.updates)}
       = 1..Cardinality(InColumn(prev, last.columnId))

C10_BulkReorderExact ==
  C10_Case =>
    /\ last.status = 200
    /\ DOMAIN tasks = DOMAIN prev
    /\ \A i \in 1..Len(last.updates) :
         tasks[last.updates[i].id] =
           [columnId |-> last.columnId, order |-> last.updates[i].order]
    /\ \A t \in DOMAIN prev \ ListedIds(last.updates) : Kept(t)

----------------------------------------------------------------------------
\* Moves, one request at a time

\* The request just answered is a move of a stored task to a valid column.
MoveOf(t) ==
  /\ last.op = "moveTask"
  /\ last.id = t
  /\ t \in DOMAIN prev
  /\ last.columnId \in validColumns

AllDense(st) == \A c \in validColumns : Dense(st, c)

C12_Case ==
  \E t \in Ids :
    /\ MoveOf(t)
    /\ last.columnId = prev[t].columnId
    /\ last.order = prev[t].order

\* C12: a move of a task to the column and order it already has is answered
\* with success and leaves every task as it was.
C12_MoveToOwnPlace == C12_Case => last.status = 200 /\ tasks = prev

C12_Witness ==
  /\ C12_Case
  /\ last.status = 200
  /\ \E t \in DOMAIN tasks :
       t # last.id /\ tasks[t].columnId = last.columnId

\* The request just answered is a successful move on a board whose columns all
\* held orders 1..N.
C13_Case ==
  /\ \E t \in Ids : MoveOf(t)
  /\ last.status = 200
  /\ AllDense(prev)

\* C13: after any successful move on a board of dense columns, whatever
\* positive target order was accepted, every column is dense again.
C13_MoveKeepsDense == C13_Case => AllDense(tasks)

\* C13, amended: after a successful move on a board of dense columns to a
\* target order no greater than the number of tasks the target column holds
\* after the move, every column is dense again.
C13_MoveInRangeKeepsDense ==
  (C13_Case /\ last.order <= Cardinality(InColumn(tasks, last.columnId)))
    => AllDense(tasks)

C13_Witness ==
  /\ C13_Case
  /\ last.order <= Cardinality(InColumn(tasks, last.columnId))
  /\ prev[last.id].columnId # last.columnId
  /\ Cardinality(InColumn(tasks, last.columnId)) > 1
  /\ AllDense(tasks)

\* C17: a move that reports a failure has left every task in the column and
\* at the order it had before the request.
C17_MoveAtomic ==
  (last.op = "moveTask" /\ last.status # 200) => tasks = prev

----------------------------------------------------------------------------
C18_Case == last.op = "deleteTask" /\ last.id \notin DOMAIN prev

\* C18: a delete of an identifier that matches no stored task is answered
\* NotFound (404); no task is removed and no order is changed.
C18_DeleteUnknown ==
  C18_Case =>
    /\ last.status = 404
    /\ last.message = "Task not found"
    /\ tasks = prev

\* The identifier was a task's once, and the column that task was deleted
\* from still holds tasks.
C18_Witness ==
  /\ C18_Case
  /\ last.id < nextId
  /\ last.status = 404
  /\ \E c \in validColumns : Cardinality(InColumn(tasks, c)) > 1

----------------------------------------------------------------------------
\* Two creations without an order were in flight together on one column, and
\* both read the same next order: neither had written when the other read.
C14_Case ==
  /\ AllDone
  /\ \A p \in Procs : ops[p].op = "insertTask" /\ ops[p].order = 0
  /\ ops[1].columnId = ops[2].columnId
  /\ ops[1].taskOrder = ops[2].taskOrder

\* C14: of two concurrent creations without an order that read the same next
\* order of one column, one is stored and the other's write is rejected by the
\* unique index and answered as a failure, nothing being written in its
\* place; and no state holds two tasks of one column at one order.
C14_AppendRace ==
  /\ \A c \in validColumns : Unique(tasks, c)
  /\ C14_Case =>
       \E p, q \in Procs :
         /\ p # q
         /\ ops[p].status = 201
         /\ ops[q].status = 400 /\ ops[q].cause = "E11000"
         /\ DOMAIN tasks = DOMAIN prev \cup {ops[p].id}
         /\ tasks[ops[p].id] =
              [columnId |-> ops[p].columnId, order |-> ops[p].taskOrder]

C14_Witness ==
  /\ C14_Case
  /\ InColumn(prev, ops[1].columnId) # {}
  /\ \E q \in Procs : ops[q].cause = "E11000"

----------------------------------------------------------------------------
\* C19: a move one of whose lookups found no task, however the steps of a
\* delete fall around it, is answered NotFound (404) and not with the generic
\* failure, and has issued no write.
C19_MoveOfMissingTask ==
  \A p \in Procs :
    (ops[p].op = "moveTask" /\ ops[p].pc = "done" /\ ops[p].cause = "NotFound")
      => ops[p].status = 404 /\ ~ops[p].wrote

----------------------------------------------------------------------------
\* The request of a handler in flight, handled alone on store st.
Alone(st, o, planS, planT) ==
  IF o.op = "insertTask"
  THEN postTask(st, IF o.id = 0 THEN nextId ELSE o.id, o.columnId, o.order, planS)
  ELSE IF o.op = "deleteTask" THEN deleteTask(st, o.id, planS)
  ELSE putTask(st, o.id, TRUE, o.columnId, o.order, planS, planT)

SameAnswer(o, r) == o.status = r.status /\ o.message = r.message

\* The store and the two answers are those of handling a's request alone on
\* the store both requests found, then b's request alone on the result.
OneAfterTheOther(a, b) ==
  \E planSa, planTa, planSb, planTb \in Plans :
    LET ra == Alone(prev, ops[a], planSa, planTa)
        rb == Alone(ra.store, ops[b], planSb, planTb)
    IN /\ SameAnswer(ops[a], ra)
       /\ SameAnswer(ops[b], rb)
       /\ tasks = rb.store

C15_Case ==
  /\ AllDone
  /\ \A p \in Procs : ops[p].op # "none"
  /\ Touched(prev, ops[1]) \cap Touched(prev, ops[2]) = {}

----------------------------------------------------------------------------
\* The move of p is across columns and has got past its lookup: it is about
\* to issue one of its writes, or has stopped (answered) after some of them.
C16_Case(p) ==
  /\ ops[p].op = "moveTask"
  /\ ops[p].pc \in {"shiftOld", "shiftNew", "save", "done"}
  /\ ops[p].oldColumnId \notin {"", ops[p].columnId}

\* C16: wherever a move across columns stands or stops among its steps (old
\* column shifted, new column shifted, moved task written), the tasks other
\* than the moved one have pairwise distinct orders within each column.
C16_OthersDistinct ==
  \A p \in Procs :
    C16_Case(p) =>
      \A c \in validColumns : \A t, u \in InColumn(tasks, c) \ {ops[p].id} :
        t # u => tasks[t].order # tasks[u].order

\* A move stopped by a rejected write after an earlier write had shifted a
\* task.
C16_Witness ==
  /\ C16_Case(1)
  /\ ops[1].pc = "done"
  /\ ops[1].status = 500
  /\ ops[1].id \in DOMAIN tasks
  /\ tasks[ops[1].id].columnId = ops[1].oldColumnId
  /\ tasks # prev

----------------------------------------------------------------------------
\* The request just answered had a write rejected by the unique index.
C20_Case ==
  /\ last.op \in {"insertTask", "moveTask", "bulkReorder"}
  /\ last.cause = "E11000"

\* C20: a creation, move or bulk reorder that had a write rejected by the
\* unique index is not answered as a success, and its answer differs from
\* the answers the request gives for a task not found, for a validation
\* error and for a failure of the store.
C20_ConflictAnswer ==
  C20_Case =>
    /\ last.status \notin {200, 201}
    /\ last.status # 404
    /\ last.message # "Order must be at least 1"
    /\ [status |-> last.status, message |-> last.message] # catchAll(last.op)

----------------------------------------------------------------------------
\* A task was moved from a dense column to an order 1..N+1 of another dense
\* column of N tasks, and the next request has moved it back.
C11_Case ==
  /\ last.op = "moveBack"
  /\ Dense(prev, prev[last.id].columnId)
  /\ Dense(prev, last.columnId)
  /\ last.order \in 1..(Cardinality(InColumn(prev, last.columnId)) + 1)

\* C11: a move of a task to another column followed at once by the move
\* back to the column and order it came from leaves every task in the column
\* and at the order it had before the two moves.
C11_MoveThereAndBack == C11_Case => tasks = prev

----------------------------------------------------------------------------
\* C23: a move to a target order that is not a positive integer is answered
\* with a validation error (400) and no write has been applied: every task
\* is in the column and at the order it had.
C23_MoveToNonPositiveOrder ==
  \A t \in Ids :
    (MoveOf(t) /\ last.order < 1) =>
      /\ last.status = 400
      /\ last.cause = "ValidationError"
      /\ tasks = prev

\* C24: a move handled alone on a board of dense columns, to an order of the
\* target column's range other than the place the task is at, has no write
\* rejected by the unique index.
C24_SoloMoveNeverRejected ==
  \A t \in Ids :
    ( /\ MoveOf(t)
      /\ AllDense(prev)
      /\ last.order >= 1
      /\ last.order <= Cardinality(InColumn(prev, last.columnId) \cup {t})
      /\ [columnId |-> last.columnId, order |-> last.order] # prev[t] )
    => last.cause # "E11000"

----------------------------------------------------------------------------
\* Bulk reorders

\* The j-th entry of the list just handled has taken effect: its task, if
\* the request found it in the column named, is at the order listed.
Applied(j) ==
  LET u == last.updates[j]
  IN IF u.id \in InColumn(prev, last.columnId)
     THEN tasks[u.id] = [columnId |-> last.columnId, order |-> u.order]
     ELSE u.id \in DOMAIN prev => Kept(u.id)

\* The task of the j-th entry is as the request found it.
NotApplied(j) ==
  last.updates[j].id \in DOMAIN prev => Kept(last.updates[j].id)

\* The bulk reorder just answered had one of its updates rejected.
C21_Case == last.op = "bulkReorder" /\ last.cause = "E11000"

\* C21: when the i-th update of a bulk reorder fails, the updates before it
\* stay applied, the i-th and those after it are not applied, no unlisted
\* task is changed, and the request is answered with a failure.
C21_PartialReorder ==
  C21_Case =>
    /\ last.status = 500
    /\ DOMAIN tasks = DOMAIN prev
    /\ \A t \in DOMAIN prev \ ListedIds(last.updates) : Kept(t)
    /\ \E i \in 1..Len(last.updates) :
         /\ \A j \in 1..(i - 1) : Applied(j)
         /\ \A j \in i..Len(last.updates) : NotApplied(j)
         /\ \E t \in InColumn(tasks, last.columnId) \ {last.updates[i].id} :
              tasks[t].order = last.updates[i].order

\* The second update failed after the first had moved its task.
C21_Witness ==
  /\ C21_Case
  /\ Len(last.updates) = 2
  /\ ~Kept(last.updates[1].id)
  /\ Kept(last.updates[2].id)

----------------------------------------------------------------------------
\* The list just handled names a task that the request found in a column
\* other than the one it reorders.
C26_Case ==
  /\ last.op = "bulkReorder"
  /\ \E t \in ListedIds(last.updates) \cap DOMAIN prev :
       prev[t].columnId # last.columnId

\* C26: a bulk reorder of column C leaves every task of another column in
\* its column and at its order, listed or not; an entry naming such a task
\* is passed over and does not fail the request: a request answered with a
\* failure has an entry naming a task of C that did not take effect.
C26_OtherColumnsUntouched ==
  last.op = "bulkReorder" =>
    /\ \A t \in DOMAIN prev : prev[t].columnId # last.columnId => Kept(t)
    /\ last.status = 500 =>
         \E j \in 1..Len(last.updates) :
           /\ last.updates[j].id \in InColumn(prev, last.columnId)
           /\ tasks[last.updates[j].id].order # last.updates[j].order

\* A list naming a task of another column and a task of C was handled with
\* success, and the task of C was moved.
C26_Witness ==
  /\ C26_Case
  /\ last.status = 200
  /\ \E t \in ListedIds(last.updates) \cap InColumn(prev, last.columnId) :
       ~Kept(t)

----------------------------------------------------------------------------
\* C22: whatever requests have been handled, each having passed its route's
\* validation, every stored task's order is 1 or more.
C22_OrdersPositive == \A t \in DOMAIN tasks : tasks[t].order >= 1

----------------------------------------------------------------------------
\* Two deletes of the same stored task are or were in flight together.
C25_Case ==
  /\ \A p \in Procs : ops[p].op = "deleteTask"
  /\ ops[1].id = ops[2].id
  /\ ops[1].id \in DOMAIN prev

\* C25: of two concurrent deletes of one task only the one that removed it
\* goes on to compact the column, and when both are answered every remaining
\* task is in its column at its order or one below.
C25_CompactedOnce ==
  C25_Case =>
    /\ \A p \in Procs : ops[p].pc = "updateMany" => ops[p].removed
    /\ AllDone =>
         \A t \in DOMAIN tasks :
           /\ tasks[t].columnId = prev[t].columnId
           /\ tasks[t].order \in {prev[t].order, prev[t].order - 1}

----------------------------------------------------------------------------
\* The store is the one left by handling a's request alone on the store both
\* requests found, then b's request alone on the result.
StoreOfOneAfterTheOther(a, b) ==
  \E planSa, planTa, planSb, planTb \in Plans :
    tasks = Alone(Alone(prev, ops[a], planSa, planTa).store, ops[b],
                  planSb, planTb).store

\* Two requests that touch a column in common were in flight together on a
\* board of dense columns, and both were answered with success.
C27_Case ==
  /\ AllDone
  /\ \A p \in Procs : ops[p].op # "none" /\ ops[p].status \in {200, 201}
  /\ Touched(prev, ops[1]) \cap Touched(prev, ops[2]) # {}
  /\ AllDense(prev)

\* C27: two requests (creation, delete, move) in flight together on one
\* column of a board of dense columns, both answered with success, leave the
\* store that handling them one after the other, in one of the two orders,
\* leaves; the column they share has no order twice.
C27_SameColumnSerial ==
  C27_Case =>
    /\ StoreOfOneAfterTheOther(1, 2) \/ StoreOfOneAfterTheOther(2, 1)
    /\ \A c \in Touched(prev, ops[1]) \cap Touched(prev, ops[2]) :
         Unique(tasks, c)

============================================================================
